---- MODULE Spec2Model ----
(***************************************************************************)
(* A model of handlr's association store (MimeApps), its resolver (Config) *)
(* and the mimeapps.list persistence format.                               *)
(*                                                                         *)
(* MIME types are strings of the model; MimeChars gives their characters   *)
(* so that the glob matching of wildmatch can be computed.  A file is the  *)
(* sequence of its sections, a section the sequence of its `key=value`     *)
(* lines, and a value the sequence of its `;`-separated segments (what     *)
(* str::split(';') yields), so that parsing and printing are computed and  *)
(* never assumed to be inverse.                                            *)
(***************************************************************************)
EXTENDS Integers, Sequences, FiniteSets, TLC

VARIABLES
    file,                \* content of mimeapps.list on disk
    default_apps,        \* MimeApps.default_apps: key -> list of handlers
    added_associations,  \* MimeApps.added_associations
    system_apps,         \* SystemApps.associations
    enable_selector,     \* ConfigFile.enable_selector
    expand_wildcards,    \* ConfigFile.expand_wildcards
    ret,                 \* what the last call returned
    phase,               \* "edit": file being written by others, "ready": Config built,
                         \* "saved": saved right after the read, "failed": Config::new
                         \* failed and main fell back to the default
    entry,               \* the DesktopEntry being run: exec template, terminal flag
    mode,                \* Mode::Launch or Mode::Open
    arguments,           \* the arguments given to DesktopEntry::exec
    terminal_output,     \* Config.terminal_output: stdout is a terminal
    term_exec_args,      \* ConfigFile.term_exec_args
    terminal_handler,    \* what get_handler(x-scheme-handler/terminal) returns
    unassociated,        \* SystemApps.unassociated
    resolved,            \* how the command's handler resolution ended
    pc,                  \* where main is: "idle", "resolve", "exec", "exit", "done"
    spawned,             \* the processes spawned so far, in order: program,
                         \* arguments, the list exec_inner was given, whether
                         \* the process was waited for, its stdout and stderr
    res,                 \* the result of the command's closure in main,
                         \* Err("none") until it has one
    exit_status,         \* the exit status of the process, -1 while it runs
    stderr,              \* what was printed to standard error
    notifications,       \* the messages given to utils::notify
    paths,               \* the paths given to Config::open_paths
    assigned,            \* the map of assign_files_to_handlers: handler -> paths
    opened,              \* the Handleable::open calls made so far, in order
    disk,                \* mimeapps.list as two invocations share it: its lines
    inv,                 \* the two invocations: position, store, lines to write
    prior,               \* the lines of mimeapps.list before either invocation
    last_saver           \* the invocation whose save ended last, 0 for none

execVars == <<entry, mode, arguments, terminal_output, term_exec_args,
              terminal_handler, unassociated, resolved, pc, spawned,
              res, exit_status, stderr, notifications>>

openVars == <<paths, assigned, opened>>

raceVars == <<disk, inv, prior, last_saver>>

vars == <<file, default_apps, added_associations, system_apps,
          enable_selector, expand_wildcards, ret, phase, execVars, openVars,
          raceVars>>

-----------------------------------------------------------------------------
(* Bounds *)

\* Most handlers the store may hold in total, over all keys.
MaxHandlers == 2

\* Most `;`-segments a file under construction may hold in total.
MaxFileSegs == 4

\* Most lines a file under construction may hold in total.
MaxFileLines == 2

\* Most handlers the store may hold in total when only the list operations run.
MaxListLen == 3

-----------------------------------------------------------------------------
(* Universe *)

\* The MIME strings used as keys and queries.
Mimes == {"a/*", "a/b*", "a/bc", "a/c"}

\* The built-in registry of concrete MIME types: "a/c" is a valid type it lacks.
mime_types == {"a/bc", "a/bd"}

\* The MIME type whose handler is the terminal emulator.
TerminalMime == "x-scheme-handler/terminal"

\* The characters of a MIME string.
MimeChars ==
    [m \in Mimes \cup mime_types \cup {TerminalMime} |->
        CASE m = "a/*"  -> <<"a", "/", "*">>
          [] m = "a/b*" -> <<"a", "/", "b", "*">>
          [] m = "a/bc" -> <<"a", "/", "b", "c">>
          [] m = "a/bd" -> <<"a", "/", "b", "d">>
          [] m = "a/c"  -> <<"a", "/", "c">>
          [] m = TerminalMime ->
                <<"x", "-", "s", "c", "h", "e", "m", "e", "-", "h", "a", "n",
                  "d", "l", "e", "r", "/", "t", "e", "r", "m", "i", "n", "a",
                  "l">>]

\* Byte value of a character: str ordering is bytewise.
Code(c) ==
    CASE c = "*" -> 42
      [] c = "/" -> 47
      [] c = "a" -> 97
      [] c = "b" -> 98
      [] c = "c" -> 99
      [] c = "d" -> 100
      [] c = "-" -> 45
      [] c = "e" -> 101
      [] c = "h" -> 104
      [] c = "i" -> 105
      [] c = "l" -> 108
      [] c = "m" -> 109
      [] c = "n" -> 110
      [] c = "r" -> 114
      [] c = "s" -> 115
      [] c = "t" -> 116
      [] c = "x" -> 120

\* Desktop files installed on the system; "bad" names no installed desktop file.
Installed == {"h1", "h2", "h3", "h4"}

\* Handlers given on the command line to set/add/remove.
UserHandlers == {"h1", "h2"}

\* DesktopEntry.name of an installed handler.
EntryName(h) ==
    CASE h = "h1" -> "N1"
      [] h = "h2" -> "N2"
      [] h = "h3" -> "N3"
      [] h = "h4" -> "N4"

\* What the selector process may print (after trim_end): nothing, a name, or
\* something else; "ERR" stands for the selector failing to run.
SelOutcomes == {"", "N1", "N2", "zz", "ERR"}

-----------------------------------------------------------------------------
(* Helpers on sequences and maps *)

Range(s) == {s[i] : i \in 1..Len(s)}

RECURSIVE SeqLess(_, _)
\* Lexicographic order of two character sequences (Ord for str).
SeqLess(a, b) ==
    IF b = <<>> THEN FALSE
    ELSE IF a = <<>> THEN TRUE
    ELSE IF Code(Head(a)) < Code(Head(b)) THEN TRUE
    ELSE IF Code(Head(a)) > Code(Head(b)) THEN FALSE
    ELSE SeqLess(Tail(a), Tail(b))

\* The order of every two strings, computed once.
OrderTable ==
    [a \in DOMAIN MimeChars |->
        [b \in DOMAIN MimeChars |-> SeqLess(MimeChars[a], MimeChars[b])]]

\* Ord for Mime: the order of the BTreeMap's keys.
MimeLess(a, b) == OrderTable[a][b]

RECURSIVE SortedKeys(_)
\* The keys of a BTreeMap in iteration order.
SortedKeys(S) ==
    IF S = {} THEN <<>>
    ELSE LET k == CHOOSE x \in S : \A y \in S \ {x} : MimeLess(x, y)
         IN  <<k>> \o SortedKeys(S \ {k})

EmptyMap == [k \in {} |-> <<>>]

\* BTreeMap::insert
MapInsert(map, k, v) ==
    [x \in DOMAIN map \cup {k} |-> IF x = k THEN v ELSE map[x]]

\* BTreeMap::remove
MapRemove(map, k) == [x \in DOMAIN map \ {k} |-> map[x]]

\* BTreeMap::retain(|_, handlers| !handlers.is_empty())
RetainNonEmpty(map) == [x \in {k \in DOMAIN map : map[k] # <<>>} |-> map[x]]

RECURSIVE SumLens(_, _)
SumLens(map, S) ==
    IF S = {} THEN 0
    ELSE LET k == CHOOSE x \in S : TRUE
         IN  Len(map[k]) + SumLens(map, S \ {k})

\* Number of handlers a map holds.
Size(map) == SumLens(map, DOMAIN map)

-----------------------------------------------------------------------------
(* Glob matching *)

RECURSIVE Glob(_, _)
\* wildmatch::WildMatch::new(p).matches(s): `*` matches any run of characters,
\* `?` one character, anything else itself.
Glob(p, s) ==
    IF p = <<>> THEN s = <<>>
    ELSE IF Head(p) = "*"
         THEN Glob(Tail(p), s) \/ (s # <<>> /\ Glob(p, Tail(s)))
    ELSE /\ s # <<>>
         /\ (Head(p) = "?" \/ Head(p) = Head(s))
         /\ Glob(Tail(p), Tail(s))

\* The matches of every pattern against every string, computed once.
MatchTable ==
    [pattern \in DOMAIN MimeChars |->
        [m \in DOMAIN MimeChars |-> Glob(MimeChars[pattern], MimeChars[m])]]

WildMatches(pattern, m) == MatchTable[pattern][m]

-----------------------------------------------------------------------------
(* Resolution: MimeApps::get_handler_from_user, Config::get_handler *)

\* Option and Result values.  A handler list option carries its key.
NoList == [some |-> FALSE, key |-> "", list |-> <<>>]
SomeList(k, l) == [some |-> TRUE, key |-> k, list |-> l]
Ok(v) == [ok |-> TRUE, val |-> v]
Err(e) == [ok |-> FALSE, val |-> e]

\* Keys of the map that, read as patterns, match the MIME type.
MatchingKeys(apps, mime) == {k \in DOMAIN apps : WildMatches(k, mime)}

\* Length of a key's string.
KeyLen(k) == Len(MimeChars[k])

\* get_from_wildcard's key, were the shortest match taken for the best.
WildcardKeyMin(apps, mime) ==
    LET matching == MatchingKeys(apps, mime)
        shortest == {k \in matching : \A j \in matching : KeyLen(j) >= KeyLen(k)}
    IN  SortedKeys(shortest)[1]

\* The key get_from_wildcard settles on: of the matching keys with the longest
\* string, the first in the map's iteration order.
WildcardKey(apps, mime) ==
    LET matching == MatchingKeys(apps, mime)
        biggest_wildcard_len ==
            CHOOSE n \in {KeyLen(k) : k \in matching} :
                \A k \in matching : KeyLen(k) <= n
        longest == {k \in matching : KeyLen(k) = biggest_wildcard_len}
    IN  SortedKeys(longest)[1]

get_from_wildcard(apps, mime) ==
    IF MatchingKeys(apps, mime) = {} THEN NoList
    ELSE LET k == WildcardKey(apps, mime) IN SomeList(k, apps[k])

\* User resolution's list, were the wildcard fallback tried before the exact key.
UserListWildcardFirst(apps, mime) ==
    IF MatchingKeys(apps, mime) # {} THEN get_from_wildcard(apps, mime)
    ELSE IF mime \in DOMAIN apps THEN SomeList(mime, apps[mime])
    ELSE NoList

\* The list user resolution settles on: the exact key's, or else the wildcard's.
UserList(apps, mime) ==
    IF mime \in DOMAIN apps THEN SomeList(mime, apps[mime])
    ELSE get_from_wildcard(apps, mime)

\* The (handler, name) pairs of the handlers whose desktop entry loads.
Candidates(list) ==
    SelectSeq(list, LAMBDA h : h \in Installed)

\* select(): the selector's trimmed output, Cancelled when it is empty.
select(out) ==
    IF out = "ERR" THEN Err("Selector")
    ELSE IF out = "" THEN Err("Cancelled")
    ELSE Ok(out)

\* The selector's condition, were a single handler enough to run it.
RunsSelectorSingle(list, use_selector) ==
    use_selector /\ Len(Candidates(list)) > 0

\* Whether user resolution runs the selector on this list.
RunsSelector(list, use_selector) == use_selector /\ Len(Candidates(list)) > 1

\* User resolution, were an unknown selector answer to give the first handler.
get_handler_from_user_default(apps, mime, use_selector, out) ==
    LET found == UserList(apps, mime) IN
    IF ~found.some THEN Err("NotFound")
    ELSE LET handlers == Candidates(found.list) IN
         IF RunsSelector(found.list, use_selector)
         THEN LET name == select(out) IN
              IF ~name.ok THEN name
              ELSE LET hit == SelectSeq(handlers,
                                  LAMBDA h : EntryName(h) = name.val)
                   IN  IF hit = <<>> THEN Ok(handlers[1]) ELSE Ok(hit[1])
         ELSE IF handlers = <<>> THEN Err("NotFound") ELSE Ok(handlers[1])

\* MimeApps::get_handler_from_user; `out` is what the selector prints if run.
get_handler_from_user(apps, mime, use_selector, out) ==
    LET found == UserList(apps, mime) IN
    IF ~found.some THEN Err("NotFound")
    ELSE LET handlers == Candidates(found.list) IN
         IF RunsSelector(found.list, use_selector)
         THEN LET name == select(out) IN
              IF ~name.ok THEN name
              ELSE LET hit == SelectSeq(handlers,
                                  LAMBDA h : EntryName(h) = name.val)
                   IN  IF hit = <<>> THEN Err("NotFound") ELSE Ok(hit[1])
         ELSE IF handlers = <<>> THEN Err("NotFound") ELSE Ok(handlers[1])

\* SystemApps::get_handler: the front of the exact key's list.
SystemGetHandler(sys, mime) ==
    IF mime \in DOMAIN sys /\ sys[mime] # <<>> THEN Ok(sys[mime][1])
    ELSE Err("NotFound")

\* Config::get_handler_from_added_associations, with the layers it looked in.
get_handler_from_added_associations(added, sys, mime) ==
    IF mime \in DOMAIN added
    THEN [res |-> IF added[mime] # <<>> THEN Ok(added[mime][1])
                  ELSE Err("NotFound"),
          consulted |-> {"user", "added"}]
    ELSE [res |-> SystemGetHandler(sys, mime),
          consulted |-> {"user", "added", "system"}]

\* Config::get_handler without its Cancelled arm: every failure falls through.
get_handler_no_cancel(apps, added, sys, mime, use_selector, out) ==
    LET h == get_handler_from_user(apps, mime, use_selector, out) IN
    IF h.ok THEN [res |-> h, consulted |-> {"user"}]
    ELSE get_handler_from_added_associations(added, sys, mime)

\* Config::get_handler, with the layers it looked in.
get_handler(apps, added, sys, mime, use_selector, out) ==
    LET h == get_handler_from_user(apps, mime, use_selector, out) IN
    IF ~h.ok /\ h.val = "Cancelled" THEN [res |-> h, consulted |-> {"user"}]
    ELSE IF h.ok THEN [res |-> h, consulted |-> {"user"}]
    ELSE get_handler_from_added_associations(added, sys, mime)

-----------------------------------------------------------------------------
(* The association file: DesktopList FromStr / Display, read_from, save_to *)

AddedSection == "Added Associations"
DefaultSection == "Default Applications"
SectionNames == {AddedSection, DefaultSection}

RECURSIVE Unique(_)
\* Itertools::unique: the first occurrence of every element, in order.
Unique(s) ==
    IF s = <<>> THEN <<>>
    ELSE LET init == SubSeq(s, 1, Len(s) - 1)
             last == s[Len(s)]
         IN  IF last \in Range(init) THEN Unique(init)
             ELSE Unique(init) \o <<last>>

\* DesktopHandler::from_str: the name must resolve to an installed desktop entry.
DesktopHandlerFromStr(token) ==
    IF token \in Installed THEN Ok(token) ELSE Err("NotFound")

\* FromStr for DesktopList as handlr-regex has it: a token that does not resolve
\* is left out.
DesktopListFromStrLenient(segs) ==
    Ok(SelectSeq(Unique(SelectSeq(segs, LAMBDA t : t # "")),
                 LAMBDA t : DesktopHandlerFromStr(t).ok))

\* FromStr for DesktopList: split(';') is given; empty segments are dropped,
\* repeats removed, and the first token that does not resolve fails the list.
DesktopListFromStr(segs) ==
    LET tokens == Unique(SelectSeq(segs, LAMBDA t : t # "")) IN
    IF \E i \in 1..Len(tokens) : ~DesktopHandlerFromStr(tokens[i]).ok
    THEN Err("NotFound")
    ELSE Ok(tokens)

\* Display for DesktopList, as split(';') would cut it: the handlers joined by
\* `;` and one more `;`.
DesktopListDisplay(list) ==
    (IF list = <<>> THEN <<"">> ELSE list) \o <<"">>

\* The lines of the first section of that name; none when it is absent.
SectionLines(f, name) ==
    LET at == {i \in 1..Len(f) : f[i].name = name} IN
    IF at = {} THEN <<>>
    ELSE f[CHOOSE i \in at : \A j \in at : i <= j].lines

RECURSIVE ParseLines(_)
\* One section into a map: every value parsed, a later line of a key replacing
\* an earlier one; the first value that fails to parse fails the section.
ParseLines(lines) ==
    IF lines = <<>> THEN Ok(EmptyMap)
    ELSE LET init == ParseLines(SubSeq(lines, 1, Len(lines) - 1))
             last == lines[Len(lines)]
             list == DesktopListFromStr(last.segs)
         IN  IF ~init.ok THEN init
             ELSE IF ~list.ok THEN Err(list.val)
             ELSE Ok(MapInsert(init.val, last.key, list.val))

\* MimeApps::read_from: deserialize both sections, a missing one defaulting to
\* the empty map, then drop the empty default entries.
read_from(f) ==
    LET added == ParseLines(SectionLines(f, AddedSection))
        default == ParseLines(SectionLines(f, DefaultSection))
    IN  IF ~added.ok \/ ~default.ok THEN Err("Parse")
        ELSE Ok([added_associations |-> added.val,
                 default_apps |-> RetainNonEmpty(default.val)])

\* One section's lines, keys in the map's order.
SerializeLines(map) ==
    LET keys == SortedKeys(DOMAIN map) IN
    [i \in 1..Len(keys) |->
        [key |-> keys[i], segs |-> DesktopListDisplay(map[keys[i]])]]

\* The serialization, were default_apps the struct's first field.
SerializeDefaultFirst(added, apps) ==
    (IF DOMAIN apps = {} THEN <<>>
     ELSE <<[name |-> DefaultSection, lines |-> SerializeLines(apps)]>>)
    \o
    (IF DOMAIN added = {} THEN <<>>
     ELSE <<[name |-> AddedSection, lines |-> SerializeLines(added)]>>)

\* serde_ini::ser::to_writer on MimeApps: the struct's fields in order, each
\* skipped when its map is empty.
Serialize(added, apps) ==
    (IF DOMAIN added = {} THEN <<>>
     ELSE <<[name |-> AddedSection, lines |-> SerializeLines(added)]>>)
    \o
    (IF DOMAIN apps = {} THEN <<>>
     ELSE <<[name |-> DefaultSection, lines |-> SerializeLines(apps)]>>)

\* MimeApps::save_to without its retain.
save_to_no_retain(added, apps) ==
    [default_apps |-> apps, written |-> Serialize(added, apps)]

\* MimeApps::save_to: the store after its retain, and what is written.
save_to(added, apps) ==
    LET kept == RetainNonEmpty(apps) IN
    [default_apps |-> kept, written |-> Serialize(added, kept)]

-----------------------------------------------------------------------------
(* Mutations of MimeApps *)

\* entry(k).or_default().push_back(h)
PushBack(apps, k, h) ==
    MapInsert(apps, k, (IF k \in DOMAIN apps THEN apps[k] ELSE <<>>) \o <<h>>)

\* The registry types a pattern expands to.
Expansion(mime) == {m \in mime_types : WildMatches(mime, m)}

\* MimeApps::add_handler
add_handler(apps, mime, handler, expand) ==
    IF expand
    THEN [x \in DOMAIN apps \cup Expansion(mime) |->
            IF x \in Expansion(mime)
            THEN (IF x \in DOMAIN apps THEN apps[x] ELSE <<>>) \o <<handler>>
            ELSE apps[x]]
    ELSE PushBack(apps, mime, handler)

\* MimeApps::set_handler
set_handler(apps, mime, handler, expand) ==
    IF expand
    THEN [x \in DOMAIN apps \cup Expansion(mime) |->
            IF x \in Expansion(mime) THEN <<handler>> ELSE apps[x]]
    ELSE MapInsert(apps, mime, <<handler>>)

\* MimeApps::unset_handler, were only the front handler dropped.
unset_handler_front(apps, mime) ==
    [default_apps |->
        IF mime \in DOMAIN apps /\ apps[mime] # <<>>
        THEN MapInsert(apps, mime, Tail(apps[mime]))
        ELSE MapRemove(apps, mime),
     removed |-> mime \in DOMAIN apps]

\* MimeApps::unset_handler: the map without the key, and whether it was there.
unset_handler(apps, mime) ==
    [default_apps |-> MapRemove(apps, mime), removed |-> mime \in DOMAIN apps]

\* VecDeque::remove(pos)
RemoveAt(list, pos) ==
    SubSeq(list, 1, pos - 1) \o SubSeq(list, pos + 1, Len(list))

\* MimeApps::remove_handler, were the last occurrence the one removed.
remove_handler_last(apps, mime, handler) ==
    LET handler_list == IF mime \in DOMAIN apps THEN apps[mime] ELSE <<>>
        at == {i \in 1..Len(handler_list) : handler_list[i] = handler}
    IN  IF at = {}
        THEN [default_apps |-> MapInsert(apps, mime, handler_list),
              removed |-> FALSE]
        ELSE LET pos == CHOOSE i \in at : \A j \in at : j <= i IN
             [default_apps |-> MapInsert(apps, mime, RemoveAt(handler_list, pos)),
              removed |-> TRUE]

\* MimeApps::remove_handler: the entry is created when absent; the first
\* occurrence of the handler is removed from its list.
remove_handler(apps, mime, handler) ==
    LET handler_list == IF mime \in DOMAIN apps THEN apps[mime] ELSE <<>>
        at == {i \in 1..Len(handler_list) : handler_list[i] = handler}
    IN  IF at = {}
        THEN [default_apps |-> MapInsert(apps, mime, handler_list),
              removed |-> FALSE]
        ELSE LET pos == CHOOSE i \in at : \A j \in at : i <= j IN
             [default_apps |-> MapInsert(apps, mime, RemoveAt(handler_list, pos)),
              removed |-> TRUE]

-----------------------------------------------------------------------------
(* DesktopEntry: exec templates and the commands built from them.  A       *)
(* string of this part is the sequence of its characters.                  *)

MaxArgs == 2

None == [some |-> FALSE]
Some(v) == [some |-> TRUE, val |-> v]

\* A failed `exec.remove(0)`: the process aborts instead of returning.
Panic == [ok |-> FALSE, val |-> "panic"]

\* The exec templates of the entries run.
Execs ==
    { <<"p">>,                                   \* p
      <<"p", " ", "%", "f">>,                    \* p %f
      <<"p", " ", "%", "F">>,                    \* p %F
      <<"p", " ", "-", "%", "u", " ", "q">>,     \* p -%u q
      <<"p", " ", "'", "%", "U", " ", "q", "'">>,\* p '%U q'
      <<"p", " ", "%", "'", "f", "'">>,          \* p %'f'
      <<"%", "f">>,                              \* %f
      <<" ">>,                                   \* a blank
      <<"p", " ", "'">> }                        \* p '

\* The arguments given on the command line: x and "y z".
Args == {<<"x">>, <<"y", " ", "z">>}

RECURSIVE SeqsUpTo(_, _)
SeqsUpTo(S, n) ==
    IF n = 0 THEN {<<>>}
    ELSE LET shorter == SeqsUpTo(S, n - 1)
         IN  shorter \cup {Append(l, a) : l \in shorter, a \in S}

ArgLists == SeqsUpTo(Args, MaxArgs)

\* The terminal entries: `t -e` set by the user, `s` found among system apps.
UserTerminalExec == <<"t", " ", "-", "e">>
SystemTerminalExec == <<"s">>

\* A desktop file behind a handler: the handler's name, whether get_entry
\* loads the file, its exec, and whether its categories include
\* TerminalEmulator.
DesktopFile(name, exec, loads, emulator) ==
    [name |-> name, exec |-> exec, loads |-> loads, emulator |-> emulator]

\* The handlers get_handler may give for x-scheme-handler/terminal: the
\* user's terminal, and one whose desktop file no longer loads.
UserTerminal == DesktopFile("t", UserTerminalExec, TRUE, TRUE)
LostTerminal == DesktopFile("l", <<"l">>, FALSE, TRUE)

\* The pools of desktop files that declare no MIME type: none, an editor, and
\* an editor, a terminal that does not load and two that do.
Pools ==
    { <<>>,
      <<DesktopFile("e", <<"e">>, TRUE, FALSE)>>,
      <<DesktopFile("e", <<"e">>, TRUE, FALSE), LostTerminal,
        DesktopFile("s", SystemTerminalExec, TRUE, TRUE),
        DesktopFile("s2", <<"s", "2">>, TRUE, TRUE)>> }

\* The values of term_exec_args: unset, `-x`, and a lone quote.
TermExecArgs == {None, Some(<<"-", "x">>), Some(<<"'">>)}

\* shlex::split over the characters used here: blanks separate words, a
\* single quote opens a literal run up to the next one, and an unclosed quote
\* makes the split fail.
RECURSIVE shlex_words(_, _, _, _, _, _)
shlex_words(s, i, word, in_word, in_quote, words) ==
    IF i > Len(s)
    THEN IF in_quote THEN None
         ELSE Some(IF in_word THEN Append(words, word) ELSE words)
    ELSE LET c == s[i] IN
         IF in_quote
         THEN IF c = "'"
              THEN shlex_words(s, i + 1, word, TRUE, FALSE, words)
              ELSE shlex_words(s, i + 1, Append(word, c), TRUE, TRUE, words)
         ELSE IF c = "'"
              THEN shlex_words(s, i + 1, word, TRUE, TRUE, words)
         ELSE IF c = " "
              THEN IF in_word
                   THEN shlex_words(s, i + 1, <<>>, FALSE, FALSE,
                                    Append(words, word))
                   ELSE shlex_words(s, i + 1, <<>>, FALSE, FALSE, words)
         ELSE shlex_words(s, i + 1, Append(word, c), TRUE, FALSE, words)

shlex_split(s) == shlex_words(s, 1, <<>>, FALSE, FALSE, <<>>)

\* The patterns of the matcher `special` in get_cmd.
special == {<<"%", "f">>, <<"%", "F">>, <<"%", "u">>, <<"%", "U">>}

\* str::contains
contains(s, pat) ==
    \E i \in 1..(Len(s) - Len(pat) + 1) : SubSeq(s, i, i + Len(pat) - 1) = pat

\* AhoCorasick::is_match for `special`
is_match(s) == \E pat \in special : contains(s, pat)

\* [String]::join(" ")
RECURSIVE join(_)
join(args) ==
    IF args = <<>> THEN <<>>
    ELSE IF Len(args) = 1 THEN args[1]
    ELSE args[1] \o <<" ">> \o join(Tail(args))

\* AhoCorasick::replace_all_with for `special`: every match, left to right
\* and without overlap, gives way to the replacement.
RECURSIVE replace_all(_, _, _)
replace_all(s, i, with) ==
    IF i > Len(s) THEN <<>>
    ELSE IF i < Len(s) /\ SubSeq(s, i, i + 1) \in special
    THEN with \o replace_all(s, i + 2, with)
    ELSE <<s[i]>> \o replace_all(s, i + 1, with)

\* The flat_map of get_cmd over the words of the template.
RECURSIVE flat_map(_, _)
flat_map(words, args) ==
    IF words = <<>> THEN <<>>
    ELSE LET s == Head(words)
             here == IF s \in special THEN args
                     ELSE IF is_match(s)
                     THEN <<replace_all(s, 1, join(args))>>
                     ELSE <<s>>
         IN  here \o flat_map(Tail(words), args)

\* The expansion of get_cmd: the template's words with the arguments put in.
\* Whether there is a placeholder is asked of the template as written.
expand(exec, words, args) ==
    IF is_match(exec) THEN flat_map(words, args) ELSE words \o args

\* SystemApps::terminal_emulator, were the category not asked for.
terminal_emulator_any(pool) ==
    LET entries == SelectSeq(pool, LAMBDA h : h.loads) IN
    IF entries = <<>> THEN None ELSE Some(entries[1])

\* SystemApps::terminal_emulator: of the unassociated handlers whose entry
\* loads, the first that is a terminal emulator.
terminal_emulator(pool) ==
    LET entries == SelectSeq(pool, LAMBDA h : h.loads)
        found == SelectSeq(entries, LAMBDA e : e.emulator)
    IN  IF found = <<>> THEN None ELSE Some(found[1])

\* Config::terminal: the entry of the handler resolved for
\* x-scheme-handler/terminal, else the terminal emulator found among system
\* apps; its exec, and term_exec_args after a blank.
terminal(handler, pool, opts) ==
    LET set == IF handler.ok /\ handler.val.loads THEN Some(handler.val)
               ELSE None
        e == IF set.some THEN set ELSE terminal_emulator(pool)
    IN  IF ~e.some THEN Err("NoTerminal")
        ELSE Ok(IF opts.some THEN e.val.exec \o <<" ">> \o opts.val
                ELSE e.val.exec)

\* The condition, were the terminal put in front whenever the entry asks for
\* one.
wraps_always(e, term_out) == e.terminal

\* Config::terminal as the handlr-regex sources have it: when no handler is
\* set, the terminal emulator found among the system's desktop files is
\* announced in a notification, set as the handler of
\* x-scheme-handler/terminal and saved; a failure of any of these gives
\* NoTerminal.  With the command come the store, the file written if any, the
\* notification sent, and what the terminal's handler resolves to afterwards.
terminal_guessing(handler, pool, opts, apps, added, notified, saved) ==
    LET set == IF handler.ok /\ handler.val.loads THEN Some(handler.val)
               ELSE None
        found == terminal_emulator(pool)
        with(e) == Ok(IF opts.some THEN e.exec \o <<" ">> \o opts.val
                      ELSE e.exec)
        same == [cmd |-> Err("NoTerminal"), default_apps |-> apps,
                 written |-> None, notified |-> <<>>, handler |-> handler]
    IN  IF set.some THEN [same EXCEPT !.cmd = with(set.val)]
        ELSE IF ~found.some \/ ~notified THEN same
        ELSE LET guessed == MapInsert(apps, TerminalMime, <<found.val.name>>)
             IN  IF ~saved
                 THEN [same EXCEPT !.default_apps = guessed,
                                   !.notified = <<"Guessed">>,
                                   !.handler = Ok(found.val)]
                 ELSE [cmd |-> with(found.val),
                       default_apps |-> guessed,
                       written |-> Some(Serialize(added, guessed)),
                       notified |-> <<"Guessed">>,
                       handler |-> Ok(found.val)]

\* Whether get_cmd puts the terminal command in front.
wraps(e, term_out) == e.terminal /\ ~term_out

\* DesktopEntry::get_cmd: the program and its arguments, or the error.
get_cmd(e, args, term_out, term_cmd) ==
    LET words == shlex_split(e.exec) IN
    IF ~words.some THEN Err("BadExec")
    ELSE LET exec == expand(e.exec, words.val, args) IN
         IF wraps(e, term_out)
         THEN IF ~term_cmd.ok THEN term_cmd
              ELSE LET term == shlex_split(term_cmd.val) IN
                   IF ~term.some THEN Err("BadCmd")
                   ELSE LET all == term.val \o exec IN
                        IF all = <<>> THEN Panic
                        ELSE Ok([cmd |-> Head(all), args |-> Tail(all)])
         ELSE IF exec = <<>> THEN Panic
              ELSE Ok([cmd |-> Head(exec), args |-> Tail(exec)])

\* The condition of exec_inner, were every terminal entry waited for.
waits_terminal(e, term_out) == e.terminal

\* Whether exec_inner waits for the process it spawned; it is spawned with
\* stdout and stderr discarded when not.
waits(e, term_out) == e.terminal /\ term_out

\* `supports_multiple` in DesktopEntry::exec
supports_multiple(e) ==
    contains(e.exec, <<"%", "F">>) \/ contains(e.exec, <<"%", "U">>)

\* The dispatch of DesktopEntry::exec, were Open mode to pass every argument
\* to one process as Launch mode does.
exec_calls_launch(e, m, args) == <<args>>

\* The dispatch of DesktopEntry::exec: the argument list of each exec_inner
\* call, in the order of the calls.
exec_calls(e, m, args) ==
    IF args = <<>> THEN << <<>> >>
    ELSE IF supports_multiple(e) \/ m = "Launch" THEN <<args>>
    ELSE [i \in 1..Len(args) |-> <<args[i]>>]


-----------------------------------------------------------------------------
(* The Config object: one action per public operation *)

\* SystemApps::populate: what the installed desktop files advertise.
SystemPopulated == [m \in {"a/bc"} |-> <<"h4">>]

\* The files Config::new may find: none yet (created empty), one with an added
\* association, one whose added association has an empty value.
StartFiles ==
    { <<>>,
      <<[name |-> AddedSection,
         lines |-> <<[key |-> "a/bc", segs |-> <<"h3", "">>]>>]>>,
      <<[name |-> AddedSection,
         lines |-> <<[key |-> "a/bc", segs |-> <<"">>]>>]>> }

\* What the last call was, what it returned, the layers it looked in and what
\* the selector printed during it.
Ret(op, mime, ok, val, consulted) ==
    [op |-> op, mime |-> mime, ok |-> ok, val |-> val, consulted |-> consulted,
     out |-> ""]

RetOk == Ret("ok", "", TRUE, "", {})

\* No path is being opened.
NoOpen ==
    /\ paths = <<>>
    /\ assigned = EmptyMap
    /\ opened = <<>>

\* One invocation alone: nothing is known of another.
NoRace ==
    /\ disk = <<>>
    /\ inv = <<>>
    /\ prior = <<>>
    /\ last_saver = 0

\* No handler is being run.
NoExec ==
    /\ entry = [exec |-> <<>>, terminal |-> FALSE]
    /\ mode = "Open"
    /\ arguments = <<>>
    /\ terminal_output = TRUE
    /\ term_exec_args = None
    /\ terminal_handler = Err("NotFound")
    /\ unassociated = <<>>
    /\ resolved = "Ok"
    /\ pc = "idle"
    /\ spawned = <<>>
    /\ res = Err("none")
    /\ exit_status = -1
    /\ stderr = <<>>
    /\ notifications = <<>>

\* The commands that edit and query the store.
NoCommand ==
    /\ NoExec
    /\ NoOpen
    /\ NoRace

\* A get_handler call: its result, and what the selector printed during it.
RetGet(mime, out, r) ==
    [Ret("get", mime, r.res.ok, r.res.val, r.consulted) EXCEPT !.out = out]

Init ==
    \E f \in StartFiles, es \in BOOLEAN, ew \in BOOLEAN :
        /\ file = f
        /\ default_apps = read_from(f).val.default_apps
        /\ added_associations = read_from(f).val.added_associations
        /\ system_apps = SystemPopulated
        /\ enable_selector = es
        /\ expand_wildcards = ew
        /\ ret = RetOk
        /\ phase = "ready"
        /\ NoCommand

\* ConfigFile::use_selector
use_selector(config_enable, enable, disable) ==
    (config_enable \/ enable) /\ ~disable

\* Config::override_selector with the command line's selector flags.
OverrideSelector(enable, disable) ==
    /\ phase = "ready"
    /\ enable_selector' = use_selector(enable_selector, enable, disable)
    /\ ret' = RetOk
    /\ UNCHANGED <<file, default_apps, added_associations, system_apps,
                   expand_wildcards, phase, execVars, openVars,
                   raceVars>>

\* What Config::get_handler returns in the current state.
Resolve(mime, out) ==
    get_handler(default_apps, added_associations, system_apps, mime,
                enable_selector, out)

\* What the selector may print during the resolution of this MIME type: it only
\* prints when it is run.
SelectorOutputs(mime) ==
    LET found == UserList(default_apps, mime) IN
    IF found.some /\ RunsSelector(found.list, enable_selector)
    THEN SelOutcomes ELSE {""}

\* Config::get_handler; `out` is what the selector prints if it is run.
ConfigGetHandler(mime, out) ==
    /\ phase = "ready"
    /\ ret' = RetGet(mime, out, Resolve(mime, out))
    /\ UNCHANGED <<file, default_apps, added_associations, system_apps,
                   enable_selector, expand_wildcards, phase, execVars, openVars,
                   raceVars>>

\* MimeApps::save: the empty entries dropped, the file rewritten.
Save(apps) ==
    /\ default_apps' = save_to(added_associations, apps).default_apps
    /\ file' = save_to(added_associations, apps).written

\* Config::set_handler, the store kept within `max` handlers.
SetHandlerWithin(max, mime, handler) ==
    /\ phase = "ready"
    /\ LET apps == set_handler(default_apps, mime, handler, expand_wildcards) IN
        /\ Size(apps) <= max
        /\ Save(apps)
    /\ ret' = Ret("set", mime, TRUE, "", {})
    /\ UNCHANGED <<added_associations, system_apps, enable_selector,
                   expand_wildcards, phase, execVars, openVars,
                   raceVars>>

\* Config::set_handler
ConfigSetHandler(mime, handler) == SetHandlerWithin(MaxHandlers, mime, handler)

\* Config::add_handler, the store kept within `max` handlers.
AddHandlerWithin(max, mime, handler) ==
    /\ phase = "ready"
    /\ LET apps == add_handler(default_apps, mime, handler, expand_wildcards) IN
        /\ Size(apps) <= max
        /\ Save(apps)
    /\ ret' = Ret("add", mime, TRUE, "", {})
    /\ UNCHANGED <<added_associations, system_apps, enable_selector,
                   expand_wildcards, phase, execVars, openVars,
                   raceVars>>

\* Config::add_handler
ConfigAddHandler(mime, handler) == AddHandlerWithin(MaxHandlers, mime, handler)

\* Config::unset_handler: saved only when an entry was removed.
ConfigUnsetHandler(mime) ==
    /\ phase = "ready"
    /\ LET r == unset_handler(default_apps, mime) IN
        /\ IF r.removed THEN Save(r.default_apps)
           ELSE default_apps' = r.default_apps /\ UNCHANGED file
        /\ ret' = Ret("unset", mime, TRUE,
                      IF r.removed THEN "removed" ELSE "", {})
    /\ UNCHANGED <<added_associations, system_apps, enable_selector,
                   expand_wildcards, phase, execVars, openVars,
                   raceVars>>

\* Config::remove_handler: saved only when a handler was removed.
ConfigRemoveHandler(mime, handler) ==
    /\ phase = "ready"
    /\ LET r == remove_handler(default_apps, mime, handler) IN
        /\ IF r.removed THEN Save(r.default_apps)
           ELSE default_apps' = r.default_apps /\ UNCHANGED file
        /\ ret' = Ret("remove", mime, TRUE,
                      IF r.removed THEN handler ELSE "", {})
    /\ UNCHANGED <<added_associations, system_apps, enable_selector,
                   expand_wildcards, phase, execVars, openVars,
                   raceVars>>

DoOverride == \E e \in BOOLEAN, d \in BOOLEAN : OverrideSelector(e, d)
DoGet ==
    \E m \in Mimes :
        \E out \in SelectorOutputs(m) : ConfigGetHandler(m, out)
DoSet == \E m \in Mimes, h \in UserHandlers : ConfigSetHandler(m, h)
DoAdd == \E m \in Mimes, h \in UserHandlers : ConfigAddHandler(m, h)
DoUnset == \E m \in Mimes : ConfigUnsetHandler(m)
DoRemove == \E m \in Mimes, h \in UserHandlers : ConfigRemoveHandler(m, h)

Next ==
    \/ DoOverride
    \/ DoGet
    \/ DoSet
    \/ DoAdd
    \/ DoUnset
    \/ DoRemove

Spec == Init /\ [][Next]_vars

-----------------------------------------------------------------------------
(* The list operations alone, with longer lists: add, set, remove, unset *)

ListSet(mime, handler) == SetHandlerWithin(MaxListLen, mime, handler)
ListAdd(mime, handler) == AddHandlerWithin(MaxListLen, mime, handler)

DoListSet == \E m \in Mimes, h \in UserHandlers : ListSet(m, h)
DoListAdd == \E m \in Mimes, h \in UserHandlers : ListAdd(m, h)

NextList ==
    \/ DoListSet
    \/ DoListAdd
    \/ DoUnset
    \/ DoRemove

\* The selector plays no part in these operations: it starts, and stays, off.
InitList == Init /\ enable_selector = FALSE

SpecList == InitList /\ [][NextList]_vars

-----------------------------------------------------------------------------
(* The file pipeline: a file written by other programs, then Config::new,   *)
(* MimeApps::save and Config::new again                                     *)

\* Keys and `;`-segments other programs write; "bad" names no desktop file.
FileKeys == {"a/*", "a/bc"}
Segments == {"", "h1", "h2", "bad"}

RECURSIVE CountSegs(_)
CountSegs(lines) ==
    IF lines = <<>> THEN 0
    ELSE Len(Head(lines).segs) + CountSegs(Tail(lines))

RECURSIVE FileLines(_)
\* Number of lines a file holds.
FileLines(f) ==
    IF f = <<>> THEN 0 ELSE Len(Head(f).lines) + FileLines(Tail(f))

RECURSIVE FileSegs(_)
\* Number of segments a file holds.
FileSegs(f) ==
    IF f = <<>> THEN 0 ELSE CountSegs(Head(f).lines) + FileSegs(Tail(f))

InitFile ==
    /\ file = <<>>
    /\ default_apps = EmptyMap
    /\ added_associations = EmptyMap
    /\ system_apps = EmptyMap
    /\ enable_selector = FALSE
    /\ expand_wildcards = FALSE
    /\ ret = RetOk
    /\ phase = "edit"
    /\ NoCommand

storeVars == <<default_apps, added_associations, system_apps,
               enable_selector, expand_wildcards>>

\* Another program starts a section.
WriteSection(name) ==
    /\ phase = "edit"
    /\ \A i \in 1..Len(file) : file[i].name # name
    /\ file' = Append(file, [name |-> name, lines |-> <<>>])
    /\ UNCHANGED <<storeVars, ret, phase, execVars, openVars,
                   raceVars>>

\* Another program starts a line `key=seg` in the last section.
WriteLine(key, seg) ==
    /\ phase = "edit"
    /\ file # <<>>
    /\ FileSegs(file) < MaxFileSegs
    /\ FileLines(file) < MaxFileLines
    /\ file' = [file EXCEPT ![Len(file)].lines =
                    Append(@, [key |-> key, segs |-> <<seg>>])]
    /\ UNCHANGED <<storeVars, ret, phase, execVars, openVars,
                   raceVars>>

\* Another program goes on with the last line: `;seg`.
WriteSegment(seg) ==
    /\ phase = "edit"
    /\ file # <<>>
    /\ file[Len(file)].lines # <<>>
    /\ FileSegs(file) < MaxFileSegs
    /\ file' = [file EXCEPT ![Len(file)].lines =
                    [@ EXCEPT ![Len(@)].segs = Append(@, seg)]]
    /\ UNCHANGED <<storeVars, ret, phase, execVars, openVars,
                   raceVars>>

\* Config::new under main's unwrap_or_default: the store read from the file,
\* or, when the read or the load of handlr.toml fails, Config::default().
ConfigNew(config_ok) ==
    /\ phase \in {"edit", "saved"}
    /\ LET r == read_from(file) IN
        IF r.ok /\ config_ok
        THEN /\ default_apps' = r.val.default_apps
             /\ added_associations' = r.val.added_associations
             /\ system_apps' = SystemPopulated
             /\ ret' = Ret("new", "", TRUE, "", {})
             /\ phase' = "ready"
        ELSE /\ default_apps' = EmptyMap
             /\ added_associations' = EmptyMap
             /\ system_apps' = EmptyMap
             /\ ret' = Ret("new", "", FALSE,
                           IF r.ok THEN "Config" ELSE r.val, {})
             /\ phase' = "failed"
    /\ UNCHANGED <<file, enable_selector, expand_wildcards, execVars, openVars,
                   raceVars>>

\* MimeApps::save right after the read, with no mutation in between; the
\* result notes whether the bytes written are the bytes that were read.
MimeAppsSave ==
    /\ phase = "ready"
    /\ Save(default_apps)
    /\ ret' = Ret("save", "", TRUE,
                  IF save_to(added_associations, default_apps).written = file
                  THEN "same" ELSE "changed", {})
    /\ phase' = "saved"
    /\ UNCHANGED <<added_associations, system_apps, enable_selector,
                   expand_wildcards, execVars, openVars,
                   raceVars>>

DoWriteSection == \E name \in SectionNames : WriteSection(name)
DoWriteLine == \E key \in FileKeys, seg \in Segments : WriteLine(key, seg)
DoWriteSegment == \E seg \in Segments : WriteSegment(seg)
DoConfigNew == \E config_ok \in BOOLEAN : ConfigNew(config_ok)

NextFile ==
    \/ DoWriteSection
    \/ DoWriteLine
    \/ DoWriteSegment
    \/ DoConfigNew
    \/ MimeAppsSave

SpecFile == InitFile /\ [][NextFile]_vars

\* main after Config::new, whatever it returned: one of set, add, remove and
\* unset on the store main holds, saved as Config does, and the process ends.
MainMutate(op, mime, handler) ==
    /\ phase \in {"ready", "failed"}
    /\ LET r == CASE op = "set" ->
                      [removed |-> TRUE,
                       default_apps |-> set_handler(default_apps, mime,
                                                    handler, expand_wildcards)]
                  [] op = "add" ->
                      [removed |-> TRUE,
                       default_apps |-> add_handler(default_apps, mime,
                                                    handler, expand_wildcards)]
                  [] op = "remove" ->
                      remove_handler(default_apps, mime, handler)
                  [] op = "unset" -> unset_handler(default_apps, mime)
       IN  IF r.removed THEN Save(r.default_apps)
           ELSE default_apps' = r.default_apps /\ UNCHANGED file
    /\ ret' = Ret(op, mime, TRUE, "", {})
    /\ phase' = "saved"
    /\ UNCHANGED <<added_associations, system_apps, enable_selector,
                   expand_wildcards, execVars, openVars, raceVars>>

DoMainMutate ==
    \E op \in {"set", "add", "remove", "unset"}, m \in FileKeys,
       h \in UserHandlers : MainMutate(op, m, h)

NextStart ==
    \/ DoWriteSection
    \/ DoWriteLine
    \/ DoWriteSegment
    \/ DoConfigNew
    \/ DoMainMutate

\* A file written by other programs, then one invocation: start-up and a
\* mutation.
SpecStart == InitFile /\ [][NextStart]_vars

-----------------------------------------------------------------------------
(* Running a handler: main resolves it, DesktopEntry::exec spawns its      *)
(* processes one exec_inner call at a time, and main ends the process      *)

InitMain ==
    /\ file = <<>>
    /\ default_apps = EmptyMap
    /\ added_associations = EmptyMap
    /\ system_apps = SystemPopulated
    /\ enable_selector = FALSE
    /\ expand_wildcards = FALSE
    /\ ret = RetOk
    /\ phase = "ready"
    /\ entry \in [exec : Execs, terminal : BOOLEAN]
    /\ mode \in {"Launch", "Open"}
    /\ arguments \in ArgLists
    /\ terminal_output \in BOOLEAN
    /\ term_exec_args \in TermExecArgs
    /\ terminal_handler \in {Ok(UserTerminal), Ok(LostTerminal),
                             Err("NotFound"),
                             Err("Cancelled")}
    /\ unassociated \in Pools
    /\ resolved \in {"Ok", "NotFound", "Cancelled"}
    /\ pc = "resolve"
    /\ spawned = <<>>
    /\ res = Err("none")
    /\ exit_status = -1
    /\ stderr = <<>>
    /\ notifications = <<>>
    /\ NoOpen
    /\ NoRace

mainVars == <<file, default_apps, added_associations, system_apps,
              enable_selector, expand_wildcards, ret, phase>>

inputVars == <<entry, mode, arguments, terminal_output, term_exec_args,
               terminal_handler, unassociated, resolved>>

\* Config::launch_handler / Handleable::open up to the call of exec: the
\* handler's resolution either gives the entry or ends the command.
ResolveHandler ==
    /\ pc = "resolve"
    /\ IF resolved = "Ok"
       THEN pc' = "exec" /\ UNCHANGED res
       ELSE pc' = "exit" /\ res' = Err(resolved)
    /\ UNCHANGED <<mainVars, inputVars, openVars, raceVars, spawned, exit_status, stderr,
                   notifications>>

\* The terminal command Config::terminal gives in the current configuration.
term_cmd == terminal(terminal_handler, unassociated, term_exec_args)

\* The exec_inner calls DesktopEntry::exec makes when none fails.
calls == exec_calls(entry, mode, arguments)

\* DesktopEntry::exec_inner, the next call of exec's dispatch, given what the
\* terminal lookup returns: the command is built, then spawned (and waited for
\* when it runs in this terminal); an error ends exec, the last call's success
\* ends it with Ok.
exec_inner(outcome, tcmd) ==
    /\ pc = "exec"
    /\ LET i == Len(spawned) + 1
           cmd == get_cmd(entry, calls[i], terminal_output, tcmd)
       IN  IF cmd = Panic
           THEN /\ pc' = "done"
                /\ exit_status' = 101
                /\ stderr' = Append(stderr, "panic")
                /\ UNCHANGED <<spawned, res>>
           ELSE IF ~cmd.ok
           THEN /\ pc' = "exit"
                /\ res' = cmd
                /\ UNCHANGED <<spawned, exit_status, stderr>>
           ELSE /\ outcome = "wait failed" => waits(entry, terminal_output)
                /\ spawned' = IF outcome = "spawn failed" THEN spawned
                              ELSE Append(spawned,
                                          [cmd |-> cmd.val.cmd,
                                           args |-> cmd.val.args,
                                           given |-> calls[i],
                                           waited |->
                                             waits(entry, terminal_output),
                                           stdio |->
                                             IF waits(entry, terminal_output)
                                             THEN "inherit" ELSE "null"])
                /\ IF outcome # "ok"
                   THEN pc' = "exit" /\ res' = Err("Io")
                   ELSE IF i = Len(calls)
                   THEN pc' = "exit" /\ res' = Ok("()")
                   ELSE pc' = "exec" /\ UNCHANGED res
                /\ UNCHANGED <<exit_status, stderr>>

\* exec_inner with the terminal lookup that only reads the store.
ExecInner(outcome) ==
    /\ exec_inner(outcome, term_cmd)
    /\ UNCHANGED <<mainVars, inputVars, openVars, raceVars, notifications>>

\* Whether get_cmd gets as far as the terminal lookup.
looks_up_terminal ==
    shlex_split(entry.exec).some /\ wraps(entry, terminal_output)

\* exec_inner as the handlr-regex sources have it: the terminal lookup of
\* get_cmd may set and save the handler of x-scheme-handler/terminal.
ExecInnerRegex(outcome, notified, saved) ==
    LET lookup == terminal_guessing(terminal_handler, unassociated,
                                    term_exec_args, default_apps,
                                    added_associations, notified, saved)
    IN  /\ exec_inner(outcome, lookup.cmd)
        /\ IF looks_up_terminal
           THEN /\ default_apps' = lookup.default_apps
                /\ file' = IF lookup.written.some THEN lookup.written.val
                           ELSE file
                /\ notifications' = notifications \o lookup.notified
                /\ terminal_handler' = lookup.handler
           ELSE UNCHANGED <<default_apps, file, notifications,
                            terminal_handler>>
        /\ UNCHANGED <<added_associations, system_apps, enable_selector,
                       expand_wildcards, ret, phase, entry, mode, arguments,
                       terminal_output, term_exec_args, unassociated,
                       resolved, openVars, raceVars>>

\* The guard of main's first arm, were no error kind singled out.
is_cancelled_never(e) == FALSE

\* matches!(*e.kind, ErrorKind::Cancelled)
is_cancelled(e) == e = "Cancelled"

\* The end of main: the match on the command's result and on whether stdout
\* is a terminal.  utils::notify spawns notify-send with the message; when
\* that fails main returns the failure, which the runtime prints before
\* exiting with 1.
Exit(notified) ==
    /\ pc = "exit"
    /\ pc' = "done"
    /\ IF res.ok
       THEN /\ exit_status' = 0
            /\ UNCHANGED <<stderr, notifications>>
       ELSE IF is_cancelled(res.val)
       THEN /\ exit_status' = 1
            /\ UNCHANGED <<stderr, notifications>>
       ELSE IF terminal_output
       THEN /\ stderr' = Append(stderr, res.val)
            /\ exit_status' = 1
            /\ UNCHANGED notifications
       ELSE /\ notifications' = Append(notifications, res.val)
            /\ stderr' = IF notified THEN stderr ELSE Append(stderr, "Io")
            /\ exit_status' = 1
    /\ UNCHANGED <<mainVars, inputVars, openVars, raceVars, spawned, res>>

DoResolveHandler == ResolveHandler
DoExecInner ==
    \E outcome \in {"ok", "spawn failed", "wait failed"} : ExecInner(outcome)
DoExit == \E notified \in BOOLEAN : Exit(notified)
DoExecInnerRegex ==
    \E outcome \in {"ok", "spawn failed", "wait failed"},
       notified \in BOOLEAN, saved \in BOOLEAN :
        ExecInnerRegex(outcome, notified, saved)

NextMain == DoResolveHandler \/ DoExecInner \/ DoExit

SpecMain == InitMain /\ [][NextMain]_vars

\* The same run in the handlr-regex sources.
NextRegex == DoResolveHandler \/ DoExecInnerRegex \/ DoExit

SpecRegex == InitMain /\ [][NextRegex]_vars

-----------------------------------------------------------------------------
(* Opening paths: Config::open_paths assigns every path to its handler,    *)
(* then opens each handler with its paths                                  *)

MaxPaths == 2

\* What a path comes to: the regex handler of handlr.toml that matches it, if
\* any, and what get_mime and get_handler give for it.
PathKinds ==
    [regex : {None, Some("r1")},
     mime : {Ok("h1"), Ok("h2"), Err("NotFound"), Err("Cancelled")}]

PathLists == SeqsUpTo(PathKinds, MaxPaths)

\* Config::get_handler_from_path: the regex handler when one matches, else
\* the handler of the path's MIME type.
get_handler_from_path(path) ==
    IF path.regex.some THEN Ok(path.regex.val) ELSE path.mime

\* assign_files_to_handlers, were a path that does not resolve left out.
RECURSIVE assign_files_skipping(_, _, _)
assign_files_skipping(ps, i, handlers) ==
    IF i > Len(ps) THEN Ok(handlers)
    ELSE LET h == get_handler_from_path(ps[i]) IN
         IF ~h.ok THEN assign_files_skipping(ps, i + 1, handlers)
         ELSE assign_files_skipping(ps, i + 1, PushBack(handlers, h.val, i))

\* Config::assign_files_to_handlers from the i-th path on: every path, told
\* by its position, is pushed to the list of its handler; the first path that
\* does not resolve ends the call with its error.
RECURSIVE assign_files_to_handlers(_, _, _)
assign_files_to_handlers(ps, i, handlers) ==
    IF i > Len(ps) THEN Ok(handlers)
    ELSE LET h == get_handler_from_path(ps[i]) IN
         IF ~h.ok THEN h
         ELSE assign_files_to_handlers(ps, i + 1, PushBack(handlers, h.val, i))

InitOpen ==
    /\ file = <<>>
    /\ default_apps = EmptyMap
    /\ added_associations = EmptyMap
    /\ system_apps = SystemPopulated
    /\ enable_selector = FALSE
    /\ expand_wildcards = FALSE
    /\ ret = RetOk
    /\ phase = "ready"
    /\ entry = [exec |-> <<>>, terminal |-> FALSE]
    /\ mode = "Open"
    /\ arguments = <<>>
    /\ terminal_output \in BOOLEAN
    /\ term_exec_args = None
    /\ terminal_handler = Err("NotFound")
    /\ unassociated = <<>>
    /\ resolved = "Ok"
    /\ pc = "assign"
    /\ spawned = <<>>
    /\ res = Err("none")
    /\ exit_status = -1
    /\ stderr = <<>>
    /\ notifications = <<>>
    /\ paths \in PathLists
    /\ assigned = EmptyMap
    /\ opened = <<>>
    /\ NoRace

\* The handlers open_paths has opened.
OpenedHandlers == {opened[k].handler : k \in 1..Len(opened)}

\* Config::open_paths up to its loop: assign_files_to_handlers(paths)?
AssignFiles ==
    /\ pc = "assign"
    /\ LET r == assign_files_to_handlers(paths, 1, EmptyMap) IN
        IF ~r.ok
        THEN /\ res' = r
             /\ pc' = "exit"
             /\ UNCHANGED assigned
        ELSE /\ assigned' = r.val
             /\ IF DOMAIN r.val = {}
                THEN pc' = "exit" /\ res' = Ok("()")
                ELSE pc' = "open" /\ UNCHANGED res
    /\ UNCHANGED <<mainVars, inputVars, raceVars, paths, opened, spawned,
                   exit_status, stderr, notifications>>

\* One turn of the loop of Config::open_paths: handler.open(self, paths)? for
\* a handler of the map, in whatever order the HashMap gives them.
Open(handler, ok) ==
    /\ pc = "open"
    /\ handler \in DOMAIN assigned \ OpenedHandlers
    /\ opened' = Append(opened, [handler |-> handler,
                                 given |-> assigned[handler]])
    /\ IF ~ok
       THEN pc' = "exit" /\ res' = Err("Io")
       ELSE IF DOMAIN assigned = OpenedHandlers \cup {handler}
       THEN pc' = "exit" /\ res' = Ok("()")
       ELSE pc' = "open" /\ UNCHANGED res
    /\ UNCHANGED <<mainVars, inputVars, raceVars, paths, assigned, spawned,
                   exit_status, stderr, notifications>>

DoAssignFiles == AssignFiles
DoOpen == \E handler \in {"h1", "h2", "r1"}, ok \in BOOLEAN : Open(handler, ok)

NextOpen == DoAssignFiles \/ DoOpen \/ DoExit

SpecOpen == InitOpen /\ [][NextOpen]_vars

-----------------------------------------------------------------------------
(* Properties of resolution *)

\* A key with a `*` in it.
IsWildcard(k) == "*" \in Range(MimeChars[k])

\* The MIME types proper: no `*`.
ConcreteMimes == {m \in Mimes : ~IsWildcard(m)}

\* The wildcard keys of default_apps, other than m itself, that match m.
WildcardKeysFor(m) ==
    {w \in DOMAIN default_apps \ {m} : IsWildcard(w) /\ WildMatches(w, m)}

\* default_apps has a non-empty exact entry for m and a wildcard key matching m.
ExactAndWildcard(m) ==
    /\ m \in DOMAIN default_apps
    /\ default_apps[m] # <<>>
    /\ WildcardKeysFor(m) # {}

AddedYields(m) ==
    m \in DOMAIN added_associations /\ added_associations[m] # <<>>

SystemYields(m) == m \in DOMAIN system_apps /\ system_apps[m] # <<>>

LongestMatching(m) ==
    {k \in MatchingKeys(default_apps, m) :
        \A j \in MatchingKeys(default_apps, m) : KeyLen(j) <= KeyLen(k)}

\* C2: when default_apps has no exact key for m, user resolution uses the list
\* of a matching key whose string is longest among the matching keys: its head
\* is returned when the selector is not run, a handler user resolution returns is
\* of that list, and an empty such list makes user resolution fail.
C2_LongestWildcard ==
    (/\ ret.op = "get"
     /\ ret.mime \notin DOMAIN default_apps
     /\ MatchingKeys(default_apps, ret.mime) # {})
        => \E k \in LongestMatching(ret.mime) :
            /\ (~RunsSelector(default_apps[k], enable_selector)
                    /\ default_apps[k] # <<>>)
                => (ret.ok /\ ret.val = default_apps[k][1]
                        /\ ret.consulted = {"user"})
            /\ (ret.ok /\ ret.consulted = {"user"})
                => ret.val \in Range(default_apps[k])
            /\ default_apps[k] = <<>> => ret.consulted # {"user"}

\* C2 witness: "a/bc" has no exact key, `a/*` and `a/b*` both match it with
\* different heads, and the head of `a/b*` was returned.
C2_Witness ==
    /\ ret.op = "get"
    /\ ret.mime = "a/bc"
    /\ "a/bc" \notin DOMAIN default_apps
    /\ {"a/*", "a/b*"} \subseteq DOMAIN default_apps
    /\ default_apps["a/*"] # <<>>
    /\ default_apps["a/b*"] # <<>>
    /\ default_apps["a/*"][1] # default_apps["a/b*"][1]
    /\ ret.ok
    /\ ret.val = default_apps["a/b*"][1]

\* C3, as stated: once user resolution has failed other than by Cancelled, the
\* exact entry of added_associations decides if it yields a handler, otherwise
\* the exact entry of SystemApps; NotFound only when no layer yields a handler.
C3_ResolverChain ==
    (ret.op = "get" /\ ret.consulted # {"user"})
        => /\ AddedYields(ret.mime)
                => (ret.ok /\ ret.val = added_associations[ret.mime][1])
           /\ (~AddedYields(ret.mime) /\ SystemYields(ret.mime))
                => (ret.ok /\ ret.val = system_apps[ret.mime][1])
           /\ (~ret.ok /\ ret.val = "NotFound")
                => (~AddedYields(ret.mime) /\ ~SystemYields(ret.mime))

\* C4: whenever user resolution inside get_handler(m) ends with Cancelled,
\* get_handler(m) returns Cancelled and has looked in neither
\* added_associations nor SystemApps.
C4_CancelledShortCircuit ==
    (/\ ret.op = "get"
     /\ get_handler_from_user(default_apps, ret.mime, enable_selector, ret.out)
            = Err("Cancelled"))
        => (~ret.ok /\ ret.val = "Cancelled" /\ ret.consulted = {"user"})

\* C4 witness: Cancelled was returned for a MIME type that added_associations
\* or SystemApps has a handler for.
C4_Witness ==
    /\ ret.op = "get"
    /\ ~ret.ok
    /\ ret.val = "Cancelled"
    /\ (AddedYields(ret.mime) \/ SystemYields(ret.mime))

-----------------------------------------------------------------------------
(* Properties of mutation *)

\* m has a handler listed under its own key.
HasEntry(m) == m \in DOMAIN default_apps /\ default_apps[m] # <<>>

\* The keys of a file's [Default Applications] section.
DefaultKeys(f) ==
    {SectionLines(f, DefaultSection)[i].key :
        i \in 1..Len(SectionLines(f, DefaultSection))}

\* C5, as stated: with the selector disabled, add_handler(m, X) on a store with
\* no entry for the MIME type m makes get_handler(m) return X, and every later
\* add_handler(m, Y) leaves what get_handler(m) returns unchanged.
C5_FirstWinsOnAdd ==
    [][\A m \in ConcreteMimes, h \in UserHandlers :
        (ConfigAddHandler(m, h) /\ ~enable_selector)
            => IF HasEntry(m)
               THEN Resolve(m, "")'.res = Ok(default_apps[m][1])
               ELSE Resolve(m, "")'.res = Ok(h)]_vars

\* C6, as stated: after set_handler(m, Y) on any store, default_apps[m] is the
\* one-element list [Y] and get_handler(m) returns Y.
C6_OverrideOnSet ==
    [][\A m \in ConcreteMimes, h \in UserHandlers :
        ConfigSetHandler(m, h)
            => /\ m \in DOMAIN default_apps'
               /\ default_apps'[m] = <<h>>
               /\ \A out \in SelOutcomes : Resolve(m, out)'.res = Ok(h)]_vars

\* C7, as stated: after remove_handler removes the only handler of m,
\* get_handler(m) fails when neither added_associations nor SystemApps has a
\* handler for m, and the key m is not in the file that save wrote.
C7_EmptyPruneAlways ==
    [][\A m \in ConcreteMimes, h \in UserHandlers :
        (HasEntry(m) /\ default_apps[m] = <<h>> /\ ConfigRemoveHandler(m, h))
            => /\ (~AddedYields(m) /\ ~SystemYields(m))
                    => \A out \in SelOutcomes : ~Resolve(m, out)'.res.ok
               /\ m \notin DefaultKeys(file')]_vars

\* C7, amended: after remove_handler removes the only handler of m, the key m
\* is in neither default_apps nor the file that save wrote, and get_handler(m)
\* fails when neither added_associations nor SystemApps has a handler for m and
\* no other key of default_apps matches m as a wildcard pattern.
C7_EmptyPrune ==
    [][\A m \in Mimes, h \in UserHandlers :
        (HasEntry(m) /\ default_apps[m] = <<h>> /\ ConfigRemoveHandler(m, h))
            => /\ (/\ ~AddedYields(m)
                   /\ ~SystemYields(m)
                   /\ MatchingKeys(default_apps', m) = {})
                    => \A out \in SelOutcomes : ~Resolve(m, out)'.res.ok
               /\ m \notin DOMAIN default_apps'
               /\ m \notin DefaultKeys(file')]_vars

\* C7 witness: the last call removed a handler, its key is gone from the store
\* and the file while other keys remain, and nothing else resolves the type.
C7_Witness ==
    /\ ret.op = "remove"
    /\ ret.val # ""
    /\ ret.mime \notin DOMAIN default_apps
    /\ ret.mime \notin DefaultKeys(file)
    /\ DefaultKeys(file) # {}
    /\ MatchingKeys(default_apps, ret.mime) = {}
    /\ ~AddedYields(ret.mime)
    /\ ~SystemYields(ret.mime)
    /\ ~Resolve(ret.mime, "").res.ok

\* C8, as stated: after every read, mutation and save, default_apps has no key
\* whose handler list is empty.
C8_NoEmptyEntry ==
    \A k \in DOMAIN default_apps : default_apps[k] # <<>>

-----------------------------------------------------------------------------
(* Properties of the file format *)

\* A value `t1;...;tn;`: tokens that are non-empty and pairwise different, at
\* least one of them, and the closing `;`.
WellFormedValue(segs) ==
    /\ Len(segs) >= 2
    /\ segs[Len(segs)] = ""
    /\ \A i \in 1..(Len(segs) - 1) : segs[i] # ""
    /\ \A i, j \in 1..(Len(segs) - 1) : segs[i] = segs[j] => i = j

\* A section whose keys ascend and whose values are well-formed.
WellFormedSection(sec) ==
    /\ sec.name \in SectionNames
    /\ \A i \in 1..Len(sec.lines) : WellFormedValue(sec.lines[i].segs)
    /\ \A i \in 1..(Len(sec.lines) - 1) :
        MimeLess(sec.lines[i].key, sec.lines[i + 1].key)

\* Well-formed as the round-trip law words it: sorted keys, no duplicate or
\* empty tokens, no empty entries, either section possibly absent.
WellFormedAsStated(f) ==
    /\ \A i \in 1..Len(f) : WellFormedSection(f[i])
    /\ \A i, j \in 1..Len(f) : f[i].name = f[j].name => i = j

\* Well-formed, and laid out as save lays a file out: [Added Associations]
\* before [Default Applications], no section without a line.
WellFormed(f) ==
    /\ WellFormedAsStated(f)
    /\ \A i \in 1..Len(f) : f[i].lines # <<>>
    /\ Len(f) = 2 => f[1].name = AddedSection

\* What the store holds, as read_from returns it.
Store == [added_associations |-> added_associations,
          default_apps |-> default_apps]

\* C9, as stated: a save right after the read of a well-formed file writes the
\* content that was read, and the file written reads back as the same store.
C9_RoundTripAsStated ==
    [][(MimeAppsSave /\ WellFormedAsStated(file))
        => (file' = file /\ read_from(file') = Ok(Store'))]_vars

\* C9, amended: a save right after the successful read of a well-formed file
\* whose sections are in the order [Added Associations], [Default Applications]
\* and each hold at least one entry writes the content that was read, and the
\* file written reads back as the same store.
C9_RoundTrip ==
    [][(MimeAppsSave /\ WellFormed(file))
        => (file' = file /\ read_from(file') = Ok(Store'))]_vars

\* C9 witness: a well-formed file of two sections was read and saved back
\* unchanged.
C9_Witness ==
    /\ phase = "saved"
    /\ ret.op = "save"
    /\ ret.val = "same"
    /\ WellFormed(file)
    /\ Len(file) = 2
    /\ DOMAIN default_apps # {}
    /\ DOMAIN added_associations # {}

\* The handlers a tolerant read keeps of the last line of key k in a section.
TolerantEntry(lines, k) ==
    LET at == {i \in 1..Len(lines) : lines[i].key = k}
        last == CHOOSE i \in at : \A j \in at : j <= i
    IN  DesktopListFromStrLenient(lines[last].segs).val

\* A section read with the bad tokens dropped.
TolerantSection(lines) ==
    [k \in {lines[i].key : i \in 1..Len(lines)} |-> TolerantEntry(lines, k)]

\* C10, as stated: the read of any association file succeeds; default_apps
\* holds, for every key, the handlers of its value that resolve, and no key
\* left without a handler.
C10_TolerantRead ==
    [][ConfigNew(TRUE)
        => /\ ret'.ok
           /\ default_apps' = RetainNonEmpty(
                TolerantSection(SectionLines(file, DefaultSection)))
           /\ DOMAIN added_associations' =
                DOMAIN TolerantSection(SectionLines(file, AddedSection))]_vars

-----------------------------------------------------------------------------
(* Properties of lists: serialization, remove, unset, fan-out *)

\* No handler token occurs twice among the segments of a value.
DistinctTokens(segs) ==
    \A a, b \in 1..Len(segs) : (segs[a] = segs[b] /\ segs[a] # "") => a = b

\* C11, as stated: after any sequence of add/set/remove/unset operations, the
\* file written by save lists each handler at most once per MIME type.
C11_DuplicateFreeFile ==
    \A i \in 1..Len(file) :
        \A j \in 1..Len(file[i].lines) : DistinctTokens(file[i].lines[j].segs)

\* The list under a key of a store; empty when the key is absent.
ListOf(apps, m) == IF m \in DOMAIN apps THEN apps[m] ELSE <<>>

\* `new` is `old` without its element at position p.
WithoutAt(old, new, p) ==
    /\ Len(new) = Len(old) - 1
    /\ \A i \in 1..Len(new) : new[i] = IF i < p THEN old[i] ELSE old[i + 1]

FanOutTargets(m) ==
    IF IsWildcard(m) THEN {t \in mime_types : WildMatches(m, t)} ELSE {m}

\* Every entry outside `targets` keeps its handlers and no other key appears.
OnlyTouched(targets) ==
    /\ \A k \in DOMAIN default_apps \ targets :
        ListOf(default_apps', k) = default_apps[k]
    /\ DOMAIN default_apps' \subseteq DOMAIN default_apps \cup targets

\* C14, as stated: with expand_wildcards on, add_handler appends the handler to,
\* and set_handler replaces by [handler], the entry of every registry type the
\* pattern matches, or of the type itself when it is concrete, and touches no
\* other key; the literal wildcard key is not stored.
C14_WildcardFanOut ==
    [][\A m \in Mimes, h \in UserHandlers :
        /\ (expand_wildcards /\ ListAdd(m, h))
            => /\ \A t \in FanOutTargets(m) :
                    ListOf(default_apps', t) = ListOf(default_apps, t) \o <<h>>
               /\ OnlyTouched(FanOutTargets(m))
        /\ (expand_wildcards /\ ListSet(m, h))
            => /\ \A t \in FanOutTargets(m) :
                    ListOf(default_apps', t) = <<h>>
               /\ OnlyTouched(FanOutTargets(m))]_vars

-----------------------------------------------------------------------------
(* Properties of the selector *)

\* The selector's answers that are text: neither empty nor a failure to run.
Answers == SelOutcomes \ {"", "ERR"}

\* The handlers of a list whose display name is the given text.
Named(list, name) == {h \in Range(list) : EntryName(h) = name}

\* C15: when get_handler(m) ran the selector, an empty answer gave Cancelled;
\* an answer that is the display name of a handler of the list gave a handler
\* of the list with that name; an answer that names no handler of the list gave
\* NotFound from user resolution, so that no handler of default_apps came back.
C15_SelectorMapping ==
    LET found == UserList(default_apps, ret.mime)
        user == get_handler_from_user(default_apps, ret.mime,
                                      enable_selector, ret.out)
    IN  (/\ ret.op = "get"
         /\ found.some
         /\ enable_selector
         /\ Len(found.list) > 1)
            => /\ ret.out = ""
                    => (user = Err("Cancelled") /\ ~ret.ok
                            /\ ret.val = "Cancelled")
               /\ (ret.out \in Answers /\ Named(found.list, ret.out) # {})
                    => (/\ user.ok
                        /\ user.val \in Named(found.list, ret.out)
                        /\ ret.ok
                        /\ ret.val = user.val
                        /\ ret.consulted = {"user"})
               /\ (ret.out \in Answers /\ Named(found.list, ret.out) = {})
                    => (user = Err("NotFound") /\ ret.consulted # {"user"})

\* C15 witness: the selector named the second handler of the list and that
\* handler, not the first, was returned.
C15_Witness ==
    /\ ret.op = "get"
    /\ enable_selector
    /\ ret.mime \in DOMAIN default_apps
    /\ Len(default_apps[ret.mime]) = 2
    /\ ret.out = EntryName(default_apps[ret.mime][2])
    /\ default_apps[ret.mime][1] # default_apps[ret.mime][2]
    /\ ret.ok
    /\ ret.val = default_apps[ret.mime][2]

\* C16: user resolution answers with the selector's choice exactly when the
\* selector is enabled and the list found has more than one handler (an empty
\* answer then cancels, and a handler returned bears the name answered); in
\* every other case it returns the first handler of a non-empty list, whatever
\* the selector would print, and NotFound for a missing or empty list.
C16_SelectorCondition ==
    \A m \in Mimes, out \in SelOutcomes :
        LET found == UserList(default_apps, m)
            user == get_handler_from_user(default_apps, m, enable_selector, out)
        IN  IF found.some /\ enable_selector /\ Len(found.list) > 1
            THEN /\ out = "" => user = Err("Cancelled")
                 /\ user.ok => EntryName(user.val) = out
            ELSE IF found.some /\ found.list # <<>>
            THEN user = Ok(found.list[1])
            ELSE user = Err("NotFound")

\* C16 witness: with the selector enabled a list of one handler was resolved to
\* that handler, and another key holds a list of none.
C16_Witness ==
    /\ ret.op = "get"
    /\ enable_selector
    /\ ret.mime \in DOMAIN default_apps
    /\ Len(default_apps[ret.mime]) = 1
    /\ ret.ok
    /\ ret.val = default_apps[ret.mime][1]
    /\ \E k \in DOMAIN default_apps : default_apps[k] = <<>>

-----------------------------------------------------------------------------
(* Properties of running a handler *)

\* The argument lists given to the processes spawned so far.
GivenLists == [i \in 1..Len(spawned) |-> spawned[i].given]

\* Whether the template as written holds %F or %U.
MultiFile(exec) ==
    \E i \in 1..(Len(exec) - 1) :
        exec[i] = "%" /\ exec[i + 1] \in {"F", "U"}

\* One process with every argument, or one process per argument.
OneForAll == <<arguments>>
OnePerArgument == [i \in 1..Len(arguments) |-> <<arguments[i]>>]

\* The processes DesktopEntry::exec is to spawn.
Dispatch ==
    IF arguments = <<>> \/ MultiFile(entry.exec) \/ mode = "Launch"
    THEN OneForAll
    ELSE OnePerArgument

IsPrefix(s, t) == Len(s) <= Len(t) /\ s = SubSeq(t, 1, Len(s))

\* C17: an exec that ends without error has spawned exactly one process with
\* all n arguments when n = 0, when the template holds %F or %U, or when the
\* mode is Launch, and otherwise exactly n processes, one per argument in
\* argument order, each given that argument alone; at every moment, and
\* however exec ends, the processes spawned so far are the first of these, in
\* that order.
C17_ExecDispatch ==
    /\ IsPrefix(GivenLists, Dispatch)
    /\ (pc \in {"exit", "done"} /\ res.ok)
            => GivenLists = Dispatch

\* C17 witness: Open mode, a single-file template and two different
\* arguments ended with two processes, the first given the first argument.
C17_Witness ==
    /\ pc = "done"
    /\ exit_status = 0
    /\ mode = "Open"
    /\ ~MultiFile(entry.exec)
    /\ Len(arguments) = 2
    /\ arguments[1] # arguments[2]
    /\ Len(spawned) = 2
    /\ spawned[1].given = <<arguments[1]>>
    /\ spawned[2].given = <<arguments[2]>>

\* A single process given every argument was spawned for a multi-file
\* template in Open mode.
C17_WitnessOne ==
    /\ pc = "done"
    /\ exit_status = 0
    /\ mode = "Open"
    /\ MultiFile(entry.exec)
    /\ Len(arguments) = 2
    /\ Len(spawned) = 1
    /\ spawned[1].given = arguments


\* The words of the entry's template, when it can be split.
TemplateWords == shlex_split(entry.exec)

\* A word that holds a placeholder %f, %F, %u or %U, and one that is nothing
\* else.
HoldsPlaceholder(word) ==
    \E i \in 1..(Len(word) - 1) :
        word[i] = "%" /\ word[i + 1] \in {"f", "F", "u", "U"}
StandalonePlaceholder(word) == Len(word) = 2 /\ HoldsPlaceholder(word)

\* The words a template word becomes: the arguments for a standalone
\* placeholder, one word with the joined arguments put in for a word that
\* holds a placeholder, the word itself otherwise.
RECURSIVE Spliced(_, _)
Spliced(words, args) ==
    IF words = <<>> THEN <<>>
    ELSE LET w == Head(words)
             here == IF StandalonePlaceholder(w) THEN args
                     ELSE IF HoldsPlaceholder(w)
                     THEN <<replace_all(w, 1, join(args))>>
                     ELSE <<w>>
         IN  here \o Spliced(Tail(words), args)

\* The vector the words of a template and the arguments are to give.
Templated(words, args) ==
    IF \E i \in 1..Len(words) : HoldsPlaceholder(words[i])
    THEN Spliced(words, args)
    ELSE words \o args

\* The whole vector of a spawned process: the program, then its arguments.
Vector(p) == <<p.cmd>> \o p.args

\* C18: every process spawned without a terminal in front runs the words of
\* the tokenized template in order, with every standalone %f, %F, %u or %U
\* replaced by the arguments it was given as separate words, every
\* placeholder inside a larger word replaced by those arguments joined with
\* one space, and, when no word holds a placeholder, the arguments appended
\* after the words.
C18_ExecTemplating ==
    \A i \in 1..Len(spawned) :
        ~wraps(entry, terminal_output)
            => Vector(spawned[i]) = Templated(TemplateWords.val,
                                              spawned[i].given)


\* Whether the handler resolved for x-scheme-handler/terminal gives an entry.
TerminalIsSet == terminal_handler.ok /\ terminal_handler.val.loads

\* Where the unassociated pool holds terminal emulators whose entry loads.
Emulators ==
    {i \in 1..Len(unassociated) :
        unassociated[i].loads /\ unassociated[i].emulator}

\* The exec of the terminal entry: of the handler set for
\* x-scheme-handler/terminal, else of the first terminal emulator of the pool.
TerminalEntryExec ==
    IF TerminalIsSet THEN terminal_handler.val.exec
    ELSE unassociated[CHOOSE i \in Emulators : \A j \in Emulators : i <= j].exec

\* The words of term_exec_args, none when it is not configured.
TermExecArgsWords ==
    IF term_exec_args.some THEN shlex_split(term_exec_args.val).val ELSE <<>>

\* The expanded exec of the entry run, for the arguments given.
Expanded(given) == expand(entry.exec, TemplateWords.val, given)

\* C19: the vector of every spawned process is, when the entry has terminal
\* = true and stdout is not a terminal, the words of the terminal entry's
\* exec, then those of term_exec_args, then the expanded exec of the entry;
\* in every other case it is the expanded exec alone.
C19_TerminalWrapping ==
    \A i \in 1..Len(spawned) :
        Vector(spawned[i]) =
            IF entry.terminal /\ ~terminal_output
            THEN shlex_split(TerminalEntryExec).val \o TermExecArgsWords
                    \o Expanded(spawned[i].given)
            ELSE Expanded(spawned[i].given)

\* C19 witness: a terminal entry run outside a terminal was spawned as the
\* user's terminal `t -e`, the configured `-x`, then its own command with the
\* argument.
C19_Witness ==
    /\ Len(spawned) = 1
    /\ entry.terminal
    /\ ~terminal_output
    /\ terminal_handler = Ok(UserTerminal)
    /\ term_exec_args.some
    /\ entry.exec = <<"p", " ", "%", "f">>
    /\ spawned[1].given = << <<"x">> >>
    /\ Vector(spawned[1]) = << <<"t">>, <<"-", "e">>, <<"-", "x">>,
                               <<"p">>, <<"x">> >>


\* The process has ended through the match that closes main.
Ended == pc = "done" /\ exit_status # 101

\* C20: a process whose command ended with Cancelled exits non-zero with
\* nothing on stderr and no notification; one whose command ended with any
\* other error exits non-zero, having printed the error to stderr and sent no
\* notification when stdout is a terminal, and having sent the error as a
\* notification when it is not; and a process exits with zero only when its
\* command succeeded.
C20_ErrorPolicy ==
    /\ (Ended /\ ~res.ok /\ res.val = "Cancelled")
            => /\ exit_status # 0
               /\ stderr = <<>>
               /\ notifications = <<>>
    /\ (Ended /\ ~res.ok /\ res.val # "Cancelled")
            => /\ exit_status # 0
               /\ terminal_output
                    => (stderr = <<res.val>> /\ notifications = <<>>)
               /\ ~terminal_output => notifications = <<res.val>>
    /\ exit_status = 0 => (pc = "done" /\ res.ok)

\* C20 witness: outside a terminal, a command ended with Cancelled and the
\* process exited with 1 without a notification.
C20_Witness ==
    /\ pc = "done"
    /\ ~terminal_output
    /\ res = Err("Cancelled")
    /\ exit_status = 1
    /\ stderr = <<>>
    /\ notifications = <<>>

-----------------------------------------------------------------------------
(* Properties of the store as a whole *)

\* C30: for every concrete MIME type m and handler H, user resolution gives
\* H for m after set_handler(m, H), and after add_handler(m, H) on a store
\* with no entry for m, whatever expand_wildcards is and whether or not the
\* registry lists m.
C30_ConcreteSetAdd ==
    [][\A m \in ConcreteMimes, h \in UserHandlers :
        /\ ConfigSetHandler(m, h)
            => get_handler_from_user(default_apps', m, FALSE, "") = Ok(h)
        /\ (~HasEntry(m) /\ ConfigAddHandler(m, h))
            => get_handler_from_user(default_apps', m, FALSE, "") = Ok(h)]_vars

\* C26: a remove_handler(m, H) that removes nothing leaves what get_handler
\* returns unchanged for every MIME type and every answer of the selector.
C26_RemoveNothingFrame ==
    [][\A m \in Mimes, h \in UserHandlers :
        (~remove_handler(default_apps, m, h).removed
            /\ ConfigRemoveHandler(m, h))
            => \A t \in Mimes, out \in SelOutcomes :
                    Resolve(t, out)' = Resolve(t, out)]_vars


\* C23: every spawned process was waited for exactly when the entry has
\* terminal = true and stdout is a terminal, keeping this process's stdout and
\* stderr; every other one was spawned with stdout and stderr discarded and
\* not waited for; so a process with the terminal command put in front was
\* never waited for.
C23_LaunchMode ==
    \A i \in 1..Len(spawned) :
        /\ spawned[i].waited <=> (entry.terminal /\ terminal_output)
        /\ ~spawned[i].waited => spawned[i].stdio = "null"
        /\ (entry.terminal /\ ~terminal_output) => ~spawned[i].waited

\* C23 witness: a terminal entry run inside a terminal was waited for.
C23_Witness ==
    /\ Len(spawned) = 1
    /\ entry.terminal
    /\ terminal_output
    /\ spawned[1].waited
    /\ spawned[1].stdio = "inherit"
    /\ pc = "done"
    /\ exit_status = 0

\* A terminal entry run outside a terminal came with the terminal in front and
\* was not waited for.
C23_WitnessWrapped ==
    /\ Len(spawned) = 1
    /\ entry.terminal
    /\ ~terminal_output
    /\ spawned[1].cmd = <<"t">>
    /\ ~spawned[1].waited


\* term_exec_args after a blank, nothing when it is not configured.
TermExecArgsSuffix ==
    IF term_exec_args.some THEN <<" ">> \o term_exec_args.val ELSE <<>>

\* C24: Config::terminal gives the exec of the handler resolved for
\* x-scheme-handler/terminal when that gives an entry, otherwise the exec of
\* the first entry of the unassociated pool that is a terminal emulator, in
\* both cases followed by a blank and term_exec_args when configured; it fails
\* with NoTerminal exactly when neither gives an entry; and a run that needed
\* the terminal ended with NoTerminal, or spawned that terminal, accordingly.
C24_TerminalResolution ==
    /\ (TerminalIsSet \/ Emulators # {})
            => term_cmd = Ok(TerminalEntryExec \o TermExecArgsSuffix)
    /\ (~TerminalIsSet /\ Emulators = {}) <=> term_cmd = Err("NoTerminal")
    /\ (pc \in {"exit", "done"} /\ res = Err("NoTerminal"))
            => (~TerminalIsSet /\ Emulators = {} /\ spawned = <<>>)
    /\ \A i \in 1..Len(spawned) :
            (entry.terminal /\ ~terminal_output)
                => spawned[i].cmd = shlex_split(TerminalEntryExec).val[1]

\* C24 witness: with no handler for x-scheme-handler/terminal and a pool of an
\* editor, a terminal that does not load and two that do, the first of these
\* two was the program spawned, with term_exec_args after it.
C24_Witness ==
    /\ terminal_handler = Err("NotFound")
    /\ Len(unassociated) = 4
    /\ term_exec_args = Some(<<"-", "x">>)
    /\ entry.terminal
    /\ ~terminal_output
    /\ Len(spawned) = 1
    /\ spawned[1].cmd = SystemTerminalExec
    /\ spawned[1].args[1] = <<"-", "x">>
    /\ term_cmd = Ok(<<"s", " ", "-", "x">>)


\* C28: no run aborts in get_cmd, and the program of every spawned process is
\* the first word of the entry's exec template, or of the terminal command
\* when the terminal is put in front; it is never taken from the arguments.
C28_ProgramName ==
    /\ exit_status # 101
    /\ \A i \in 1..Len(spawned) :
            IF entry.terminal /\ ~terminal_output
            THEN spawned[i].cmd = shlex_split(term_cmd.val).val[1]
            ELSE /\ TemplateWords.val # <<>>
                 /\ spawned[i].cmd = TemplateWords.val[1]

\* C29: when the resolution of x-scheme-handler/terminal is cancelled in the
\* selector while the terminal is needed, the run ends with Cancelled and no
\* process is spawned.
C29_CancelledTerminal ==
    (/\ entry.terminal
     /\ ~terminal_output
     /\ terminal_handler = Err("Cancelled")
     /\ resolved = "Ok"
     /\ TemplateWords.some)
        => /\ spawned = <<>>
           /\ pc \in {"exit", "done"} => res = Err("Cancelled")


\* What a path resolves to: its regex handler first, then the handler of its
\* MIME type.
Resolution(path) ==
    IF path.regex # None THEN Ok(path.regex.val) ELSE path.mime

\* The paths, by position, that do not resolve, and those of a handler.
Unresolved == {i \in 1..Len(paths) : ~Resolution(paths[i]).ok}
PathsOf(handler) ==
    SelectSeq([i \in 1..Len(paths) |-> i],
              LAMBDA i : Resolution(paths[i]) = Ok(handler))

\* C27: nothing is opened before every path is resolved; when some path does
\* not resolve, with Cancelled or otherwise, nothing is ever opened and
\* open_paths returns the error of the first such path; and a handler that is
\* opened is given exactly the paths that resolve to it, in the order given.
C27_ResolveBeforeLaunch ==
    /\ pc = "assign" => opened = <<>>
    /\ Unresolved # {}
            => /\ opened = <<>>
               /\ pc \in {"exit", "done"}
                    => res = Resolution(paths[
                                CHOOSE i \in Unresolved :
                                    \A j \in Unresolved : i <= j])
    /\ \A k \in 1..Len(opened) :
            /\ opened[k].given = PathsOf(opened[k].handler)
            /\ opened[k].given # <<>>

\* C27 witness: the first path resolved, the second was cancelled in the
\* selector; the process ended with Cancelled and opened nothing.
C27_Witness ==
    /\ Len(paths) = 2
    /\ Resolution(paths[1]).ok
    /\ Resolution(paths[2]) = Err("Cancelled")
    /\ pc = "done"
    /\ res = Err("Cancelled")
    /\ exit_status = 1
    /\ opened = <<>>

\* Two paths of two handlers were both opened, the second path's handler
\* first.
C27_WitnessBoth ==
    /\ Len(paths) = 2
    /\ Len(opened) = 2
    /\ opened[1].given = <<2>>
    /\ opened[2].given = <<1>>
    /\ exit_status = 0


\* The operations that edit the store.
Mutators == {"set", "add", "remove", "unset"}

\* C22: no step changes added_associations, and a step that changes
\* default_apps or the association file is a set, add, remove or unset;
\* resolution, the terminal lookup, get_cmd, open, launch and get change
\* neither map nor the file.
C22_StoreFrame ==
    [][/\ added_associations' = added_associations
       /\ (default_apps' # default_apps \/ file' # file)
            => ret'.op \in Mutators]_vars


\* The keys that have, in section `name` of file f, a line naming a handler.
StoredKeys(f, name) ==
    { k \in FileKeys :
        \E i \in 1..Len(f) :
            /\ f[i].name = name
            /\ \E j \in 1..Len(f[i].lines) :
                /\ f[i].lines[j].key = k
                /\ \E n \in 1..Len(f[i].lines[j].segs) :
                        f[i].lines[j].segs[n] # "" }

\* The step is a set, add, remove or unset that rewrites the file.
MutationSaves ==
    /\ phase \in {"ready", "failed"}
    /\ ret'.op \in Mutators
    /\ file' # file

\* C25: a set, add, remove or unset on m that rewrites the association file,
\* whatever start-up returned, writes a file in which every other MIME type
\* that had handlers in a section of the file still has an entry in that
\* section.
C25_NoLoss ==
    [][MutationSaves =>
        \A name \in SectionNames :
            StoredKeys(file, name) \ {ret'.mime}
                \subseteq StoredKeys(file', name)]_vars


-----------------------------------------------------------------------------
(* Two invocations on one mimeapps.list: MimeApps::read, a set_handler and  *)
(* MimeApps::save, the file's lines written one at a time                   *)

\* The invocations.
Procs == {1, 2}

\* What mimeapps.list holds before either invocation starts.
PriorFiles ==
    { <<>>,
      <<[name |-> DefaultSection,
         lines |-> <<[key |-> "a/c", segs |-> <<"h1", "">>]>>]>>,
      <<[name |-> AddedSection,
         lines |-> <<[key |-> "a/bc", segs |-> <<"h3", "">>]>>],
        [name |-> DefaultSection,
         lines |-> <<[key |-> "a/c", segs |-> <<"h1", "">>]>>]>> }

\* The types the invocations set a handler for.
RaceMimes == {"a/bc", "a/c"}

\* A section's header line, and the line-sized gap a write past the end of the
\* file leaves behind.
Header(name) == [key |-> "[", segs |-> <<name>>]
Hole == [key |-> "", segs |-> <<>>]

RECURSIVE Flat(_)
\* The lines of a file, in the order the serializer writes them.
Flat(f) ==
    IF f = <<>> THEN <<>>
    ELSE <<Header(Head(f).name)>> \o Head(f).lines \o Flat(Tail(f))

RECURSIVE Unflat(_)
\* The sections of the lines read, gaps and lines before the first header left
\* out.
Unflat(ls) ==
    IF ls = <<>> THEN <<>>
    ELSE LET init == Unflat(SubSeq(ls, 1, Len(ls) - 1))
             last == ls[Len(ls)]
         IN  IF last = Hole THEN init
             ELSE IF last.key = "["
             THEN Append(init, [name |-> last.segs[1], lines |-> <<>>])
             ELSE IF init = <<>> THEN <<>>
             ELSE [init EXCEPT ![Len(init)].lines = Append(@, last)]

\* Lines no serialization has: a gap, a line outside a section, a section
\* twice.
Malformed(ls) ==
    \/ \E i \in 1..Len(ls) : ls[i] = Hole
    \/ ls # <<>> /\ ls[1].key # "["
    \/ \E i, j \in 1..Len(ls) :
        i < j /\ ls[i].key = "[" /\ ls[j] = ls[i]

\* The store of an invocation: MimeApps::default() until it has read.
EmptyStore == [added_associations |-> EmptyMap, default_apps |-> EmptyMap]

\* Nothing but the race is going on.
InitRace ==
    /\ file = <<>>
    /\ default_apps = EmptyMap
    /\ added_associations = EmptyMap
    /\ system_apps = EmptyMap
    /\ enable_selector = FALSE
    /\ expand_wildcards = FALSE
    /\ ret = RetOk
    /\ phase = "race"
    /\ NoExec
    /\ NoOpen
    /\ prior \in PriorFiles
    /\ disk = Flat(prior)
    /\ inv = [p \in Procs |->
                [pc |-> "start", store |-> EmptyStore, offset |-> 0,
                 pending |-> <<>>]]
    /\ last_saver = 0

\* MimeApps::read under main's unwrap_or_default, in invocation p: the lines
\* on disk at this moment are parsed; lines no serialization has either fail
\* the parse (`strict`) or are passed over.
Read(p, strict) ==
    /\ inv[p].pc = "start"
    /\ LET r == IF strict /\ Malformed(disk) THEN Err("Parse")
                ELSE read_from(Unflat(disk))
       IN  inv' = [inv EXCEPT ![p].pc = "read",
                              ![p].store = IF r.ok THEN r.val ELSE EmptyStore]
    /\ UNCHANGED <<disk, prior, last_saver>>

\* Config::set_handler in invocation p up to save's open: the handler set in
\* memory, the file opened with truncate(true), the serialization still to be
\* written from position 0 of p's own descriptor.
SetAndOpen(p, mime, handler) ==
    /\ inv[p].pc = "read"
    /\ LET s == save_to(inv[p].store.added_associations,
                        set_handler(inv[p].store.default_apps, mime, handler,
                                    FALSE))
       IN  inv' = [inv EXCEPT ![p].pc = "writing",
                              ![p].store.default_apps = s.default_apps,
                              ![p].offset = 0,
                              ![p].pending = Flat(s.written)]
    /\ disk' = <<>>
    /\ UNCHANGED <<prior, last_saver>>

\* to_writer in invocation p: the next line goes to the descriptor's position,
\* over what is there or past the end of the file; after the last line save
\* returns.
WriteNext(p) ==
    /\ inv[p].pc = "writing"
    /\ LET off == inv[p].offset
           line == Head(inv[p].pending)
           last == Len(inv[p].pending) = 1
       IN  /\ disk' = IF off < Len(disk)
                      THEN [disk EXCEPT ![off + 1] = line]
                      ELSE disk \o [i \in 1..(off - Len(disk)) |-> Hole]
                                \o <<line>>
           /\ inv' = [inv EXCEPT ![p].pc = IF last THEN "done" ELSE "writing",
                                  ![p].offset = off + 1,
                                  ![p].pending = Tail(@)]
           /\ last_saver' = IF last THEN p ELSE last_saver
    /\ UNCHANGED prior

raceFrame ==
    <<file, default_apps, added_associations, system_apps, enable_selector,
      expand_wildcards, ret, phase, execVars, openVars>>

DoRead == \E p \in Procs, strict \in BOOLEAN :
    Read(p, strict) /\ UNCHANGED raceFrame
DoSetAndOpen == \E p \in Procs, m \in RaceMimes, h \in UserHandlers :
    SetAndOpen(p, m, h) /\ UNCHANGED raceFrame
DoWriteNext == \E p \in Procs : WriteNext(p) /\ UNCHANGED raceFrame

NextRace == DoRead \/ DoSetAndOpen \/ DoWriteNext

SpecRace == InitRace /\ [][NextRace]_vars

\* The serialization of the store invocation p holds.
StoreLines(p) ==
    Flat(Serialize(inv[p].store.added_associations,
                   inv[p].store.default_apps))

\* C21: with two invocations reading, setting and saving the same file, what
\* the file holds at any moment is the prior content or the complete
\* serialization of the store of an invocation that has read, and once both
\* have saved it is the serialization of the store of the one that saved last.
C21_SaveAtomic ==
    /\ inv # <<>> =>
        disk \in {Flat(prior)} \cup
                 { StoreLines(p) : p \in {q \in Procs : inv[q].pc # "start"} }
    /\ (inv # <<>> /\ \A p \in Procs : inv[p].pc = "done")
        => disk = StoreLines(last_saver)

====
